---- MODULE Spec2Model ----
(***************************************************************************)
(* A model of homework_12.py: the validated fields (NameField, PhoneField, *)
(* BirthDayField), Record, AddressBook (pagination, search, JSON save and  *)
(* load) and the command loop of main_example with its handlers.           *)
(*                                                                         *)
(* Python strings are TLA+ strings; Len, SubSeq and \o act on them         *)
(* character by character.  A Python dict is the sequence of its entries   *)
(* in insertion order.  datetime values are <<year, month, day>> plus a    *)
(* time of day counted in ticks (TicksPerDay ticks make one day).          *)
(***************************************************************************)
EXTENDS Integers, Sequences, FiniteSets, TLC

VARIABLES
    now,        \* datetime.now(): [y, m, d, t]
    nfield,     \* a NameField object: [made, value]
    pfield,     \* a PhoneField object: [made, value]
    bfield,     \* a BirthDayField object: [made, value, date]
    book,       \* AddressBook.data: sequence of Records in key insertion order
    max_page,   \* AddressBook.max_page
    file,       \* book.json: [exists, good, items] (items: the JSON array)
    saved,      \* history: AddressBook.data at the last save_to_file
    prev,       \* history: AddressBook.data before the last operation
    op,         \* the last operation: [name, ...its arguments]
    result,     \* what the last operation returned or raised
    pc,         \* position of main_example
    line,       \* the last line input() returned
    printed,    \* number of print() calls made for the last line
    saves       \* number of save_to_file calls made by main_example

vars == <<now, nfield, pfield, bfield, book, max_page, file, saved, prev,
          op, result, pc, line, printed, saves>>

-----------------------------------------------------------------------------
(* Bounds of the model *)

\* time of day is counted in ticks; 2 ticks: midnight and noon
TicksPerDay == 2
\* the clock advances at most this many ticks in a run
MaxTicks == 3
\* phones per record built through add_phone
MaxPhones == 2
\* the page sizes tried are 1..MaxPageSize
MaxPageSize == 3
\* AddressBook(): max_page = 3 when none is given
DefaultMaxPage == 3

-----------------------------------------------------------------------------
(* The inputs of the model *)

NameInputs == {"Ann", "Bob", "", "  "}

PhoneInputs ==
    {"0501234567", "+380501234567", "123", "+05012345678901234", "++380501234567",
     "050123456a", " "}

BirthdayInputs ==
    {"2000-01-01", "1999-12-31", "1990-11-06", "2026-11-07", "2999-01-01", "2000-02-29",
     "2001-02-29", "2020-1-5", "2020-13-01", "01.01.2000", ""}

\* the moments a run may start at
StartTimes ==
    {[y |-> 2026, m |-> 11, d |-> 6, t |-> 0],
     [y |-> 2026, m |-> 12, d |-> 31, t |-> 0],
     [y |-> 2027, m |-> 12, d |-> 31, t |-> 0],
     [y |-> 2028, m |-> 2, d |-> 28, t |-> 0]}

FirstStart == [y |-> 2026, m |-> 11, d |-> 6, t |-> 0]

StoreNames == {"Ann", "Bob", " "}

StorePhones == {"0501234567", "+380501234567", "123"}

StoreBirthdays == {"2000-01-01", "2999-01-01"}

\* the numbers passed to delete_phone
DeleteNumbers == {"00501234567"}

PageNames == {"Ann", "ann", "Bob", "Cid", "Dan"}

\* the lines input() may return
Lines ==
    {"", "hello", "hello Bob", "hi", "hi Bob", "good bye", "exit", "close", "bye",
     "add Ann, 0501234567", "add Cid, 0501234567, 2000-02-29", "add Bob, 123", "add Bob",
     "add Dan, 0501234567, 1990-11-06, x",
     "change ANN, +380509999999", "change Ann, 12", "change Zed, 0501234567",
     "birthday ann, 1999-12-31", "birthday Bob, 2999-01-01",
     "show all", "show 1", "show 7", "show bob", "find 050", "find n", "find"}

-----------------------------------------------------------------------------
(* str methods *)

Char(s, i) == SubSeq(s, i, i)

Digits == {"0", "1", "2", "3", "4", "5", "6", "7", "8", "9"}

Whitespace == {" ", "\t", "\n"}

RECURSIVE LStripSet(_, _)
\* str.lstrip(chars)
LStripSet(s, cs) ==
    IF Len(s) > 0 /\ Char(s, 1) \in cs THEN LStripSet(SubSeq(s, 2, Len(s)), cs)
    ELSE s

RECURSIVE RStripSet(_, _)
\* str.rstrip(chars)
RStripSet(s, cs) ==
    IF Len(s) > 0 /\ Char(s, Len(s)) \in cs THEN RStripSet(SubSeq(s, 1, Len(s) - 1), cs)
    ELSE s

\* str.strip()
Strip(s) == RStripSet(LStripSet(s, Whitespace), Whitespace)

UpperToLower ==
    [c \in {"A", "B", "C", "D", "E", "F", "G", "H", "I", "J", "K", "L", "M",
            "N", "O", "P", "Q", "R", "S", "T", "U", "V", "W", "X", "Y", "Z"} |->
        CASE c = "A" -> "a" [] c = "B" -> "b" [] c = "C" -> "c" [] c = "D" -> "d"
          [] c = "E" -> "e" [] c = "F" -> "f" [] c = "G" -> "g" [] c = "H" -> "h"
          [] c = "I" -> "i" [] c = "J" -> "j" [] c = "K" -> "k" [] c = "L" -> "l"
          [] c = "M" -> "m" [] c = "N" -> "n" [] c = "O" -> "o" [] c = "P" -> "p"
          [] c = "Q" -> "q" [] c = "R" -> "r" [] c = "S" -> "s" [] c = "T" -> "t"
          [] c = "U" -> "u" [] c = "V" -> "v" [] c = "W" -> "w" [] c = "X" -> "x"
          [] c = "Y" -> "y" [] c = "Z" -> "z"]

RECURSIVE Lower(_)
\* str.lower()
Lower(s) ==
    IF Len(s) = 0 THEN ""
    ELSE LET c == Char(s, 1)
         IN (IF c \in DOMAIN UpperToLower THEN UpperToLower[c] ELSE c)
                \o Lower(SubSeq(s, 2, Len(s)))

\* sub in s
Contains(sub, s) ==
    \E i \in 1..(Len(s) - Len(sub) + 1) : SubSeq(s, i, i + Len(sub) - 1) = sub

\* the first position of character c in s, 0 when there is none
FindChar(s, c) ==
    IF \E i \in 1..Len(s) : Char(s, i) = c
    THEN CHOOSE i \in 1..Len(s) : Char(s, i) = c /\ \A j \in 1..(i - 1) : Char(s, j) # c
    ELSE 0

\* str.split(sep, 1)
SplitFirst(s, sep) ==
    LET i == FindChar(s, sep)
    IN IF i = 0 THEN <<s>> ELSE <<SubSeq(s, 1, i - 1), SubSeq(s, i + 1, Len(s))>>

RECURSIVE SplitAll(_, _)
\* str.split(sep)
SplitAll(s, sep) ==
    LET i == FindChar(s, sep)
    IN IF i = 0 THEN <<s>>
       ELSE <<SubSeq(s, 1, i - 1)>> \o SplitAll(SubSeq(s, i + 1, Len(s)), sep)

DigitChar == [d \in 0..9 |-> Char("0123456789", d + 1)]

DigitVal(c) == CHOOSE d \in 0..9 : DigitChar[d] = c

RECURSIVE NatToStr(_)
NatToStr(n) == IF n < 10 THEN DigitChar[n] ELSE NatToStr(n \div 10) \o DigitChar[n % 10]

\* str(n) of an int
IntToStr(n) == IF n < 0 THEN "-" \o NatToStr(-n) ELSE NatToStr(n)

AllDigits(s) == \A i \in 1..Len(s) : Char(s, i) \in Digits

RECURSIVE DigitsToNat(_)
DigitsToNat(s) ==
    IF Len(s) = 0 THEN 0
    ELSE 10 * DigitsToNat(SubSeq(s, 1, Len(s) - 1)) + DigitVal(Char(s, Len(s)))

\* int(n, 10): [ok, value]; not ok is ValueError.  Surrounding whitespace and
\* one sign are accepted; digit-group underscores are not modelled.
ParseInt(n) ==
    LET s == Strip(n)
        signed == Len(s) > 0 /\ Char(s, 1) \in {"+", "-"}
        body == IF signed THEN SubSeq(s, 2, Len(s)) ELSE s
    IN IF Len(body) = 0 \/ ~AllDigits(body) THEN [ok |-> FALSE, value |-> 0]
       ELSE [ok |-> TRUE,
             value |-> IF signed /\ Char(s, 1) = "-" THEN 0 - DigitsToNat(body)
                       ELSE DigitsToNat(body)]

\* the position where a regex "$" may match: the end, or before a final newline
AtEnd(s, i) == i = Len(s) + 1 \/ (i = Len(s) /\ Char(s, i) = "\n")

\* [strip(x) for x in pieces]
StripAll(pieces) == [i \in 1..Len(pieces) |-> Strip(pieces[i])]

\* command, *data = parts, and data split on commas and stripped when present
SplitData(parts) ==
    [command |-> parts[1],
     data |-> IF Len(parts) = 1 THEN <<>> ELSE StripAll(SplitAll(parts[2], ","))]

\* the line as main_example reads it: [command, data]
ParseLine(l) == SplitData(SplitFirst(Strip(l), " "))

\* the arguments that occur in Lines
LineArguments ==
    {"Bob", "Ann", "Cid", "Dan", "ANN", "Zed", "ann", "bob", "all", "1", "7", "050", "n",
     "x", "0501234567", "123", "12", "+380509999999", "2000-02-29", "1990-11-06",
     "1999-12-31", "2999-01-01"}

\* the strings whose validation as a name, a phone and a birthday is looked up
\* in a table; any other string is validated on the spot
KnownStrings ==
    NameInputs \cup PhoneInputs \cup BirthdayInputs \cup StoreNames \cup StorePhones
        \cup StoreBirthdays \cup PageNames \cup LineArguments

-----------------------------------------------------------------------------
(* datetime *)

IsLeap(y) == (y % 4 = 0) /\ ((y % 100 # 0) \/ (y % 400 = 0))

DaysInMonth(y, m) ==
    CASE m \in {1, 3, 5, 7, 8, 10, 12} -> 31
      [] m \in {4, 6, 9, 11} -> 30
      [] m = 2 -> IF IsLeap(y) THEN 29 ELSE 28

\* datetime(y, m, d) raises ValueError unless this holds
ValidDate(y, m, d) ==
    /\ y \in 1..9999
    /\ m \in 1..12
    /\ d >= 1
    /\ d <= DaysInMonth(y, m)

RECURSIVE DaysBeforeMonth(_, _)
DaysBeforeMonth(y, m) ==
    IF m = 1 THEN 0 ELSE DaysBeforeMonth(y, m - 1) + DaysInMonth(y, m - 1)

\* date.toordinal()
Ordinal(y, m, d) ==
    LET p == y - 1
    IN p * 365 + (p \div 4) - (p \div 100) + (p \div 400) + DaysBeforeMonth(y, m) + d

\* a datetime as a number of ticks; datetimes compare and subtract by it
Stamp(dt) == Ordinal(dt.y, dt.m, dt.d) * TicksPerDay + dt.t

Midnight(y, m, d) == [y |-> y, m |-> m, d |-> d, t |-> 0]

\* the datetime one tick after dt
NextTick(dt) ==
    IF dt.t + 1 < TicksPerDay THEN [dt EXCEPT !.t = dt.t + 1]
    ELSE IF dt.d < DaysInMonth(dt.y, dt.m) THEN [dt EXCEPT !.t = 0, !.d = dt.d + 1]
    ELSE IF dt.m < 12 THEN [dt EXCEPT !.t = 0, !.d = 1, !.m = dt.m + 1]
    ELSE [y |-> dt.y + 1, m |-> 1, d |-> 1, t |-> 0]

\* datetime.fromisoformat(value) for the strings the birthday regex lets
\* through: [ok, date, msg]; not ok is ValueError
FromIsoFormat(value) ==
    LET shaped == /\ Len(value) = 10
                  /\ AllDigits(SubSeq(value, 1, 4))
                  /\ Char(value, 5) = "-"
                  /\ AllDigits(SubSeq(value, 6, 7))
                  /\ Char(value, 8) = "-"
                  /\ AllDigits(SubSeq(value, 9, 10))
        y == DigitsToNat(SubSeq(value, 1, 4))
        m == DigitsToNat(SubSeq(value, 6, 7))
        d == DigitsToNat(SubSeq(value, 9, 10))
    IN IF ~shaped
       THEN [ok |-> FALSE, date |-> Midnight(0, 0, 0),
             msg |-> "Invalid isoformat string: '" \o value \o "'"]
       ELSE IF y \notin 1..9999
       THEN [ok |-> FALSE, date |-> Midnight(0, 0, 0),
             msg |-> "year " \o IntToStr(y) \o " is out of range"]
       ELSE IF m \notin 1..12
       THEN [ok |-> FALSE, date |-> Midnight(0, 0, 0), msg |-> "month must be in 1..12"]
       ELSE IF ~ValidDate(y, m, d)
       THEN [ok |-> FALSE, date |-> Midnight(0, 0, 0),
             msg |-> "day is out of range for month"]
       ELSE [ok |-> TRUE, date |-> Midnight(y, m, d), msg |-> ""]

-----------------------------------------------------------------------------
(* Fields.  A field object is [made, value ...]; made is FALSE until a      *)
(* constructor has returned.  Every setter returns [field, raised, msg]:   *)
(* the object after the assignment and the ValueError raised, if any.      *)

NoName == [made |-> FALSE, value |-> ""]

NoPhone == [made |-> FALSE, value |-> ""]

NoDate == Midnight(0, 0, 0)

\* a BirthDayField that does not exist; in a Record, birthday = None
NoBirthday == [made |-> FALSE, value |-> "", hasDate |-> FALSE, date |-> NoDate]

Returned(f) == [field |-> f, raised |-> FALSE, msg |-> ""]

Raised(f, m) == [field |-> f, raised |-> TRUE, msg |-> m]

\* a value setter: if self.__validate__(new_value): self.__value = new_value,
\* given the message the validation raises ("" when it returns True)
SetChecked(f, new_value, m) ==
    IF m # "" THEN Raised(f, m) ELSE Returned([f EXCEPT !.value = new_value])

\* __init__: the object exists once the setter has returned; none stands for
\* the object that does not exist
Constructed(r, none) ==
    IF r.raised THEN Raised(none, r.msg) ELSE Returned([r.field EXCEPT !.made = TRUE])

\* NameField.__validate_name__: "" when the value is accepted, else the message
ValidateName(new_value) ==
    IF Strip(new_value) = "" THEN "Name cannot be empty or whitespaces" ELSE ""

\* NameField.value setter
NameSetValue(f, new_value) == SetChecked(f, new_value, ValidateName(new_value))

\* NameField(name), computed
MakeNameField(name) == Constructed(NameSetValue(NoName, name), NoName)

NameFieldTable == [v \in KnownStrings |-> MakeNameField(v)]

\* NameField(name)
NewNameField(name) ==
    IF name \in KnownStrings THEN NameFieldTable[name] ELSE MakeNameField(name)

\* the string without one leading "+"
AfterPlus(value) ==
    IF Len(value) > 0 /\ Char(value, 1) = "+" THEN SubSeq(value, 2, Len(value)) ELSE value

\* n digits from the start of s, then the end
DigitsThenEnd(s, n) == Len(s) >= n /\ AllDigits(SubSeq(s, 1, n)) /\ AtEnd(s, n + 1)

\* re.match(r"^\+?[\d]{10,14}$", value)
PhoneMatches(value) == \E n \in 10..14 : DigitsThenEnd(AfterPlus(value), n)

\* PhoneField.__validate_phone__: "" when the value is accepted, else the message
ValidatePhone(value) ==
    IF Strip(value) = "" THEN "Phone cannot be empty or whitespaces"
    ELSE IF PhoneMatches(value) THEN ""
    ELSE "Phone is not correct"

\* PhoneField.value setter
PhoneSetValue(f, new_value) == SetChecked(f, new_value, ValidatePhone(new_value))

\* PhoneField(phone), computed
MakePhoneField(phone) == Constructed(PhoneSetValue(NoPhone, phone), NoPhone)

PhoneFieldTable == [v \in KnownStrings |-> MakePhoneField(v)]

\* PhoneField(phone)
NewPhoneField(phone) ==
    IF phone \in KnownStrings THEN PhoneFieldTable[phone] ELSE MakePhoneField(phone)

\* str(value).lstrip('+').lstrip('0'), of PhoneField.get_phone_code and delete_phone
PhoneCode(value) == LStripSet(LStripSet(value, {"+"}), {"0"})

\* re.match(r"^\d{4}\-\d?\d\-\d?\d$", value)
BirthdayMatches(value) ==
    /\ Len(value) >= 5
    /\ AllDigits(SubSeq(value, 1, 4))
    /\ Char(value, 5) = "-"
    /\ \E a \in 1..2 :
          /\ Len(value) >= 5 + a + 1
          /\ AllDigits(SubSeq(value, 6, 5 + a))
          /\ Char(value, 6 + a) = "-"
          /\ \E b \in 1..2 :
                /\ Len(value) >= 6 + a + b
                /\ AllDigits(SubSeq(value, 7 + a, 6 + a + b))
                /\ AtEnd(value, 7 + a + b)

\* the checks of __validate_birthday__ that do not read the clock: the value
\* is blank, it matches the regex, and what fromisoformat makes of it
ReadBirthday(value) ==
    [blank |-> Strip(value) = "",
     matches |-> BirthdayMatches(value),
     parsed |-> IF BirthdayMatches(value) THEN FromIsoFormat(value)
                ELSE [ok |-> FALSE, date |-> NoDate, msg |-> ""]]

BirthdayTable == [v \in KnownStrings |-> ReadBirthday(v)]

LookupBirthday(value) ==
    IF value \in KnownStrings THEN BirthdayTable[value] ELSE ReadBirthday(value)

\* __validate_birthday__ and the setter, given what the value reads as:
\* self.date is assigned as soon as the value parses, before the comparison
\* with datetime.now(), and self.__value only when nothing was raised
BirthdayChecked(f, new_value, clock, read) ==
    IF read.blank THEN Raised(f, "Birthday cannot be empty or whitespaces")
    ELSE IF ~read.matches THEN Raised(f, "Birthday is not correct, should be YYYY-MM-DD")
    ELSE IF ~read.parsed.ok THEN Raised(f, read.parsed.msg)
    ELSE IF Stamp(read.parsed.date) > Stamp(clock)
    THEN Raised([f EXCEPT !.hasDate = TRUE, !.date = read.parsed.date],
                "Birthday cannot be than now")
    ELSE Returned([f EXCEPT !.hasDate = TRUE, !.date = read.parsed.date,
                            !.value = new_value])

\* BirthDayField.value setter
BirthdaySetValue(f, new_value, clock) ==
    BirthdayChecked(f, new_value, clock, LookupBirthday(new_value))

\* BirthDayField(b): an object whose constructor raised is never seen
NewBirthDayField(b, clock) ==
    Constructed(BirthdaySetValue(NoBirthday, b, clock), NoBirthday)

-----------------------------------------------------------------------------
(* Record: [name, phones, birthday]; phones holds the PhoneField values in  *)
(* list order, birthday is a BirthDayField or NoBirthday (None).            *)

\* Record(name), given NameField(name): [raised, msg, value]
RecordNamed(name, n) ==
    [raised |-> n.raised, msg |-> n.msg,
     value |-> [name |-> name, phones |-> <<>>, birthday |-> NoBirthday]]

\* Record(name)
NewRecord(name) == RecordNamed(name, NewNameField(name))

\* Record.add_phone
add_phone(r, phone) == [r EXCEPT !.phones = Append(@, phone)]

\* edit_phone without self.phones.clear()
EditWithoutClear(r, new_phone) == add_phone(r, new_phone)

\* Record.edit_phone: clear the list, then add_phone
edit_phone(r, new_phone) == add_phone([r EXCEPT !.phones = <<>>], new_phone)

\* the positions of the phones whose phone code is that of number
CodeMatches(phones, number) ==
    {i \in 1..Len(phones) : PhoneCode(phones[i]) = PhoneCode(number)}

\* self.phones.remove(s) for the first s among the hits, if any
RemoveFirst(phones, hits) ==
    IF hits = {} THEN phones
    ELSE SubSeq(phones, 1, (CHOOSE i \in hits : \A j \in hits : i <= j) - 1)
            \o SubSeq(phones, (CHOOSE i \in hits : \A j \in hits : i <= j) + 1, Len(phones))

\* Record.delete_phone
delete_phone(r, number) ==
    [r EXCEPT !.phones = RemoveFirst(r.phones, CodeMatches(r.phones, number))]

\* ((delta1 if delta1 > now else delta2) - now).days, timedelta.days being the
\* floor of the difference in days
DaysUntil(delta1, delta2, clock) ==
    ((IF Stamp(delta1) > Stamp(clock) THEN Stamp(delta1) ELSE Stamp(delta2))
        - Stamp(clock)) \div TicksPerDay

\* days_to_birthday for the parsed date bd: both datetime(now.year, ...) and
\* datetime(now.year + 1, ...) are built before either is used
DaysToDate(bd, clock) ==
    IF ~ValidDate(clock.y, bd.m, bd.d) \/ ~ValidDate(clock.y + 1, bd.m, bd.d)
    THEN [raised |-> "ValueError", value |-> 0, msg |-> "day is out of range for month"]
    ELSE [raised |-> "", msg |-> "",
          value |-> DaysUntil(Midnight(clock.y, bd.m, bd.d),
                              Midnight(clock.y + 1, bd.m, bd.d), clock)]

\* Record.days_to_birthday at the moment clock: [raised, msg, value]
days_to_birthday(r, clock) ==
    IF ~r.birthday.made
    THEN [raised |-> "AttributeError", value |-> 0,
          msg |-> "'NoneType' object has no attribute 'get_datetime'"]
    ELSE IF ~r.birthday.hasDate
    THEN [raised |-> "AttributeError", value |-> 0,
          msg |-> "'NoneType' object has no attribute 'month'"]
    ELSE DaysToDate(r.birthday.date, clock)

RECURSIVE Join(_, _)
\* sep.join(items)
Join(sep, items) ==
    IF Len(items) = 0 THEN ""
    ELSE IF Len(items) = 1 THEN items[1]
    ELSE items[1] \o sep \o Join(sep, Tail(items))

\* the line of a record with a birthday, given days_to_birthday()
WithBirthday(r, days) ==
    IF days.raised # "" THEN [raised |-> days.raised, msg |-> days.msg, value |-> ""]
    ELSE [raised |-> "", msg |-> "",
          value |-> r.name \o "\t| " \o Join(", ", r.phones) \o "\t| " \o r.birthday.value
                        \o "\t| next birthday in " \o IntToStr(days.value) \o " days" \o "\n"]

\* Record.__str__ at the moment clock: [raised, msg, value]
RecordStr(r, clock) ==
    IF ~r.birthday.made
    THEN [raised |-> "", msg |-> "", value |-> r.name \o "\t| " \o Join(", ", r.phones) \o "\n"]
    ELSE WithBirthday(r, days_to_birthday(r, clock))

\* get_json_data without the birthday
JsonWithoutBirthday(r) == [name |-> r.name, phones |-> r.phones]

\* Record.get_json_data: the JSON object of a record; "birthday" only when set
get_json_data(r) ==
    IF r.birthday.made
    THEN [name |-> r.name, birthday |-> r.birthday.value, phones |-> r.phones]
    ELSE [name |-> r.name, phones |-> r.phones]

-----------------------------------------------------------------------------
(* AddressBook: data is the sequence of Records in key insertion order; a   *)
(* record's key is its name.                                               *)

\* AddressBook.add_record: a dict assignment keeps the place of an existing key
add_record(data, r) ==
    IF \E i \in 1..Len(data) : data[i].name = r.name
    THEN [i \in 1..Len(data) |-> IF data[i].name = r.name THEN r ELSE data[i]]
    ELSE Append(data, r)

RECURSIVE IterPages(_, _, _)
\* AddressBook.__iter__: the pages yielded, given the records still to visit
\* and the page being filled
IterPages(items, page, size) ==
    IF Len(items) = 0 THEN (IF Len(page) > 0 THEN <<page>> ELSE <<>>)
    ELSE IF Len(page) + 1 = size
    THEN <<Append(page, Head(items))>> \o IterPages(Tail(items), <<>>, size)
    ELSE IterPages(Tail(items), Append(page, Head(items)), size)

\* __iter__ without the yield after the loop: full pages only
FullPages(data, size) ==
    [k \in 1..(Len(data) \div size) |-> SubSeq(data, (k - 1) * size + 1, k * size)]

\* list(book)
Pages(data, size) == IterPages(data, <<>>, size)

\* the loop of __getitem__ over the pages
PageOf(pages, page_number) ==
    IF page_number \in 1..Len(pages)
    THEN [raised |-> "", msg |-> "", value |-> pages[page_number]]
    ELSE [raised |-> "KeyError", value |-> <<>>,
          msg |-> "index out of range in book, max page: " \o IntToStr(Len(pages) + 1)]

\* AddressBook.__getitem__: [raised, msg, value]
GetItem(data, size, page_number) == PageOf(Pages(data, size), page_number)

RECURSIVE Filter(_, _)
\* the items whose place in keep holds TRUE, in order
Filter(items, keep) ==
    IF Len(items) = 0 THEN <<>>
    ELSE (IF keep[1] THEN <<Head(items)>> ELSE <<>>) \o Filter(Tail(items), Tail(keep))

\* the test of find_by_name on a key, n being lowered already
NameFound(name, n, use_any) ==
    IF use_any THEN Contains(n, Lower(name)) ELSE Lower(name) = n

\* AddressBook.find_by_name
find_by_name(data, n, use_any) ==
    Filter(data, [i \in 1..Len(data) |-> NameFound(data[i].name, Lower(n), use_any)])

\* the test of find_by_phone on a record's phones, number being lowered already
PhoneFound(phones, number, use_any) ==
    \E k \in 1..Len(phones) :
        IF use_any THEN Contains(number, Lower(phones[k])) ELSE number = Lower(phones[k])

\* AddressBook.find_by_phone
find_by_phone(data, number, use_any) ==
    Filter(data, [i \in 1..Len(data) |-> PhoneFound(data[i].phones, Lower(number), use_any)])

\* AddressBook.save_to_file: the file after json.dump
save_to_file(data) ==
    [exists |-> TRUE, good |-> TRUE, items |-> [i \in 1..Len(data) |-> get_json_data(data[i])]]

\* the value of record_index when the record at 0-based position i is being
\* built: it is set to 0 before the loop and never changed
RecordIndex(i) == 0

RECURSIVE AddPhones(_, _)
RECURSIVE AddPhonesNext(_, _, _)
\* the loop over json_record['phones']: [raised, msg, value]
AddPhones(r, phones) ==
    IF Len(phones) = 0 THEN [raised |-> FALSE, msg |-> "", value |-> r]
    ELSE AddPhonesNext(r, NewPhoneField(Head(phones)), Tail(phones))

\* record.add_phone(PhoneField(phone)) for the PhoneField p, and the loop on
AddPhonesNext(r, p, rest) ==
    IF p.raised THEN [raised |-> TRUE, msg |-> p.msg, value |-> r]
    ELSE AddPhones(add_phone(r, p.field.value), rest)

\* the body of the try for a json_record that has a name, given Record(name)
\* as r and BirthDayField(birthday) as b
BuildSteps(r, b, phones) ==
    IF r.raised THEN r
    ELSE IF b.raised THEN [raised |-> TRUE, msg |-> b.msg, value |-> r.value]
    ELSE AddPhones([r.value EXCEPT !.birthday = b.field], phones)

\* the body of the try in load_from_file for one json_record that has a
\* name: [raised, msg, value], raised when a ValueError is raised
BuildRecord(json_record, clock) ==
    BuildSteps(NewRecord(json_record.name),
               IF "birthday" \in DOMAIN json_record
               THEN NewBirthDayField(json_record.birthday, clock)
               ELSE Returned(NoBirthday),
               IF "phones" \in DOMAIN json_record THEN json_record.phones ELSE <<>>)

\* load_from_file without self.data = {}
KeptData(data) == data

\* the data a load starts from: self.data = {}
ClearedData(data) == <<>>

RECURSIVE LoadItems(_, _, _, _)
RECURSIVE LoadNext(_, _, _, _, _)
\* the for loop of load_from_file from the i-th item (1-based) on:
\* [data, none, str]: the book's data and the value returned (None, or str)
LoadItems(items, i, data, clock) ==
    IF i > Len(items) THEN [data |-> data, none |-> TRUE, str |-> ""]
    ELSE IF "name" \notin DOMAIN items[i] THEN LoadItems(items, i + 1, data, clock)
    ELSE LoadNext(items, i, data, clock, BuildRecord(items[i], clock))

\* the end of one pass of that loop, r being the outcome of the try
LoadNext(items, i, data, clock, r) ==
    IF r.raised
    THEN [data |-> data, none |-> FALSE,
          str |-> "Validation error in " \o IntToStr(RecordIndex(i - 1)) \o " record: "
                      \o r.msg]
    ELSE LoadItems(items, i + 1, add_record(data, r.value), clock)

\* AddressBook.load_from_file on a file that exists: [data, none, str]
load_from_file(data, f, clock) ==
    IF ~f.good
    THEN [data |-> data, none |-> FALSE, str |-> "Expecting value: line 1 column 1 (char 0)"]
    ELSE LoadItems(f.items, 1, ClearedData(data), clock)

-----------------------------------------------------------------------------
(* The handlers.  Each returns [data, out, raised, msg]: the book's data    *)
(* after the call, the string returned, and the exception that escaped the *)
(* handler ("" when none did).                                             *)

Reply(data, out) == [data |-> data, out |-> out, raised |-> "", msg |-> ""]

Escaped(data, exc, m) == [data |-> data, out |-> "", raised |-> exc, msg |-> m]

\* hello(n); None is passed as the absence of an argument
hello(data, inputs) ==
    IF Len(inputs) = 0 THEN Reply(data, "How can I help you?")
    ELSE Reply(data, "Hello " \o inputs[1] \o ", how can I help you?")

\* the try of adding, given Record(name), PhoneField(phone) and, when b is
\* given and not empty, BirthDayField(b): the first that raised is reported
AddingBody(data, r, ph, b) ==
    IF r.raised THEN Reply(data, r.msg)
    ELSE IF ph.raised THEN Reply(data, ph.msg)
    ELSE IF b.raised THEN Reply(data, b.msg)
    ELSE Reply(add_record(data, [add_phone(r.value, ph.field.value)
                                    EXCEPT !.birthday = b.field]),
               "add completed")

\* adding(name, phone, b=None) called with the inputs: more than three do not
\* bind to its parameters, which is a TypeError outside its try
adding(data, inputs, clock) ==
    IF Len(inputs) > 3
    THEN Escaped(data, "TypeError",
                 "adding() takes from 2 to 3 positional arguments but "
                     \o IntToStr(Len(inputs)) \o " were given")
    ELSE AddingBody(data, NewRecord(inputs[1]), NewPhoneField(inputs[2]),
                    IF Len(inputs) = 3 /\ inputs[3] # ""
                    THEN NewBirthDayField(inputs[3], clock)
                    ELSE Returned(NoBirthday))

\* the try of change, given the places of the records find_by_name(n) found
\* and PhoneField(p), which is built anew for every record found and raises
\* for the first one or for none
ChangeBody(data, found, ph) ==
    IF \A i \in 1..Len(data) : ~found[i] THEN Reply(data, "Name is not found")
    ELSE IF ph.raised THEN Reply(data, ph.msg)
    ELSE Reply([i \in 1..Len(data) |->
                   IF found[i] THEN edit_phone(data[i], ph.field.value) ELSE data[i]],
               "Number is changed")

\* change(n, p)
change(data, n, p) ==
    ChangeBody(data, [i \in 1..Len(data) |-> NameFound(data[i].name, Lower(n), FALSE)],
               NewPhoneField(p))

\* a text that was built without an exception
Text(value) == [raised |-> "", msg |-> "", value |-> value]

\* info_line after one part and then the rest are added to it: [raised, msg,
\* value]; when a part raises, value is the text built until then
Joined(one, rest) ==
    IF one.raised # "" THEN one
    ELSE [raised |-> rest.raised, msg |-> rest.msg, value |-> one.value \o rest.value]

RECURSIVE RenderRecords(_, _)
\* info_line += str(record) for each record: [raised, msg, value]
RenderRecords(records, clock) ==
    IF Len(records) = 0 THEN Text("")
    ELSE Joined(RecordStr(Head(records), clock), RenderRecords(Tail(records), clock))

\* the header of page p
PageHeader(p) == Text("====\tpage: " \o IntToStr(p) \o "\t====\n")

RECURSIVE RenderPages(_, _, _)
\* the loop of show over the pages of the book, from page number p on
RenderPages(pages, p, clock) ==
    IF Len(pages) = 0 THEN Text("")
    ELSE Joined(Joined(PageHeader(p), RenderRecords(Head(pages), clock)),
                RenderPages(Tail(pages), p + 1, clock))

\* return info_line, unless building it raised
Shown(data, text) ==
    IF text.raised # "" THEN Escaped(data, text.raised, text.msg)
    ELSE Reply(data, text.value)

\* the items found, added to info_line, or the reply when there are none
ShowFound(data, items, none, clock, info_line) ==
    IF Len(items) = 0 THEN Reply(data, none)
    ELSE Shown(data, Joined(Text(info_line), RenderRecords(items, clock)))

\* the except ValueError branch of show, info_line holding what the try added
ShowByName(data, n, clock, info_line) ==
    ShowFound(data, find_by_name(data, n, FALSE), "Name is not found", clock, info_line)

\* the records of the page rendered: a ValueError raised by str(record) is
\* caught by the except ValueError of show
ShowText(data, n, clock, text) ==
    IF text.raised = "ValueError" THEN ShowByName(data, n, clock, text.value)
    ELSE Shown(data, text)

\* the try of show once int(n, 10) has returned; str of a KeyError is the
\* repr of its message
ShowPage(data, n, clock, page) ==
    IF page.raised # "" THEN Reply(data, "'" \o page.msg \o "'")
    ELSE ShowText(data, n, clock, RenderRecords(page.value, clock))

\* the else branch of show, number being int(n, 10)
ShowNumber(data, size, n, clock, number) ==
    IF ~number.ok THEN ShowByName(data, n, clock, "")
    ELSE ShowPage(data, n, clock,
                  GetItem(data, size, IF number.value < 1 THEN 1 ELSE number.value))

\* show(n)
show(data, size, n, clock) ==
    IF n = "all" THEN Shown(data, RenderPages(Pages(data, size), 1, clock))
    ELSE ShowNumber(data, size, n, clock, ParseInt(n))

\* the records find looks at: those found by name, else those found by phone
FoundByNameOrPhone(data, n, byName) ==
    IF Len(byName) = 0 THEN find_by_phone(data, n, TRUE) ELSE byName

\* find(n)
find(data, n, clock) ==
    ShowFound(data, FoundByNameOrPhone(data, n, find_by_name(data, n, TRUE)),
              "Not found record by " \o n, clock, "")

\* the loop of birthday, which returns at the first record found, given the
\* places of the records found and BirthDayField(b)
BirthdayBody(data, hits, f) ==
    IF hits = {} THEN Reply(data, "Name is not found")
    ELSE IF f.raised THEN Reply(data, f.msg)
    ELSE Reply([data EXCEPT ![CHOOSE i \in hits : \A j \in hits : i <= j].birthday = f.field],
               "Birthday set successfully")

\* birthday(n, b)
birthday(data, n, b, clock) ==
    BirthdayBody(data, {i \in 1..Len(data) : NameFound(data[i].name, Lower(n), FALSE)},
                 NewBirthDayField(b, clock))

\* the function the commands table gives for a command word, "" for none
Handler(command) ==
    CASE command \in {"hello", "hi"} -> "hello"
      [] command = "add" -> "adding"
      [] command = "show" -> "show"
      [] command = "find" -> "find"
      [] command = "change" -> "change"
      [] command = "birthday" -> "birthday"
      [] OTHER -> ""

\* the call of the function a handler wraps, with the inputs as its arguments
Call(func, inputs, data, size, clock) ==
    CASE func = "hello" -> hello(data, inputs)
      [] func = "adding" -> adding(data, inputs, clock)
      [] func = "show" -> show(data, size, inputs[1], clock)
      [] func = "find" -> find(data, inputs[1], clock)
      [] func = "change" -> change(data, inputs[1], inputs[2])
      [] func = "birthday" -> birthday(data, inputs[1], inputs[2], clock)

\* the test inner of input_error makes of the inputs, by the command word
\* typed; a word it does not know fails it
InputsAccepted(command, inputs) ==
    CASE command = "add" -> Len(inputs) > 1
      [] command \in {"change", "birthday"} -> Len(inputs) = 2
      [] command \in {"phone", "show", "find"} -> Len(inputs) = 1
      [] command = "hello" -> TRUE
      [] OTHER -> FALSE

\* what inner returns when the test fails; the source's message for show has
\* backquotes around all
Usage(command) ==
    CASE command = "add" -> "Give me name and phone please, birthday optional"
      [] command = "change" -> "Give me name and phone please"
      [] command = "birthday" -> "Give me name and birthday please"
      [] command = "phone" -> "Enter user name"
      [] command = "show" -> "Show must be with parameter 'all' or name"
      [] command = "find" -> "Find must be with one parameter (part of phone or name)"
      [] OTHER -> "Not correct validation"

\* the arguments inner passes on: hello gets inputs[0] or None
Passed(command, inputs) ==
    IF command = "hello" /\ Len(inputs) > 0 THEN <<inputs[1]>> ELSE inputs

\* inner of input_error, wrapped around func: the argument count is checked
\* by the command word typed, not by the function wrapped
inner(func, command, inputs, data, size, clock) ==
    IF InputsAccepted(command, inputs)
    THEN Call(func, Passed(command, inputs), data, size, clock)
    ELSE Reply(data, Usage(command))

exit_commands == {"good bye", "exit", "close"}

\* one pass of the while loop of main_example for a command that does not
\* exit: the result that is printed, or the exception that escapes
Dispatch(command, inputs, data, size, clock) ==
    IF Handler(command) # "" THEN inner(Handler(command), command, inputs, data, size, clock)
    ELSE Reply(data, "Not correct command")

-----------------------------------------------------------------------------
(* What the variables a specification does not use are held at *)

IdleOp == [name |-> "none"]

IdleResult == [raised |-> FALSE, msg |-> ""]

IdleFile == [exists |-> FALSE, good |-> TRUE, items |-> <<>>]

\* the clock advances
Tick ==
    /\ \E s \in StartTimes : Stamp(s) <= Stamp(now) /\ Stamp(now) < Stamp(s) + MaxTicks
    /\ now' = NextTick(now)
    /\ UNCHANGED <<nfield, pfield, bfield, book, max_page, file, saved, prev, op,
                   result, pc, line, printed, saves>>

-----------------------------------------------------------------------------
(* SpecField: an object of one of the field classes is constructed and     *)
(* assigned to; pc names the class                                         *)

Fields == [n |-> nfield, p |-> pfield, b |-> bfield]

InitField ==
    /\ now = FirstStart
    /\ nfield = NoName
    /\ pfield = NoPhone
    /\ bfield = NoBirthday
    /\ book = <<>>
    /\ max_page = DefaultMaxPage
    /\ file = IdleFile
    /\ saved = <<>>
    /\ prev = Fields
    /\ op = IdleOp
    /\ result = IdleResult
    /\ pc \in {"NameField", "PhoneField", "BirthDayField"}
    /\ line = ""
    /\ printed = 0
    /\ saves = 0

\* what every operation on a field records
FieldOp(name, v, r) ==
    /\ prev' = Fields
    /\ op' = [name |-> name, arg |-> v]
    /\ result' = [raised |-> r.raised, msg |-> r.msg]
    /\ UNCHANGED <<now, book, max_page, file, saved, pc, line, printed, saves>>

\* nfield = NameField(v)
ConstructName(v) ==
    /\ pc = "NameField"
    /\ ~nfield.made
    /\ \E r \in {NewNameField(v)} :
          /\ nfield' = r.field
          /\ FieldOp("NameField", v, r)
    /\ UNCHANGED <<pfield, bfield>>

\* nfield.value = v
AssignName(v) ==
    /\ nfield.made
    /\ \E r \in {NameSetValue(nfield, v)} :
          /\ nfield' = r.field
          /\ FieldOp("NameField.value", v, r)
    /\ UNCHANGED <<pfield, bfield>>

\* pfield = PhoneField(v)
ConstructPhone(v) ==
    /\ pc = "PhoneField"
    /\ ~pfield.made
    /\ \E r \in {NewPhoneField(v)} :
          /\ pfield' = r.field
          /\ FieldOp("PhoneField", v, r)
    /\ UNCHANGED <<nfield, bfield>>

\* pfield.value = v
AssignPhone(v) ==
    /\ pfield.made
    /\ \E r \in {PhoneSetValue(pfield, v)} :
          /\ pfield' = r.field
          /\ FieldOp("PhoneField.value", v, r)
    /\ UNCHANGED <<nfield, bfield>>

\* bfield = BirthDayField(v)
ConstructBirthday(v) ==
    /\ pc = "BirthDayField"
    /\ ~bfield.made
    /\ \E r \in {NewBirthDayField(v, now)} :
          /\ bfield' = r.field
          /\ FieldOp("BirthDayField", v, r)
    /\ UNCHANGED <<nfield, pfield>>

\* bfield.value = v
AssignBirthday(v) ==
    /\ bfield.made
    /\ \E r \in {BirthdaySetValue(bfield, v, now)} :
          /\ bfield' = r.field
          /\ FieldOp("BirthDayField.value", v, r)
    /\ UNCHANGED <<nfield, pfield>>

NextField ==
    \/ pc = "BirthDayField" /\ Tick
    \/ \E v \in NameInputs : ConstructName(v)
    \/ \E v \in NameInputs : AssignName(v)
    \/ \E v \in PhoneInputs : ConstructPhone(v)
    \/ \E v \in PhoneInputs : AssignPhone(v)
    \/ \E v \in BirthdayInputs : ConstructBirthday(v)
    \/ \E v \in BirthdayInputs : AssignBirthday(v)

SpecField == InitField /\ [][NextField]_vars

\* C9: after any sequence of accepted and rejected assignments no field holds
\* invalid state: a rejected assignment leaves the field exactly as it was, the
\* stored values pass their validation, and a BirthDayField's parsed date is
\* the parse of its stored value and is not in the future.
FieldsNeverInvalid ==
    /\ (result.raised /\ op.name # "none") => Fields = prev
    /\ nfield.made => ValidateName(nfield.value) = ""
    /\ pfield.made => ValidatePhone(pfield.value) = ""
    /\ bfield.made =>
          /\ bfield.hasDate
          /\ bfield.date = FromIsoFormat(bfield.value).date
          /\ Stamp(bfield.date) <= Stamp(now)

-----------------------------------------------------------------------------
(* SpecDays: one record, its birthday assigned and days_to_birthday called  *)
(* as the clock advances                                                    *)

LibFrame == UNCHANGED <<nfield, pfield, bfield, pc, line, printed, saves>>

InitDays ==
    /\ now \in StartTimes
    /\ nfield = NoName
    /\ pfield = NoPhone
    /\ bfield = NoBirthday
    /\ book = <<NewRecord("Ann").value>>
    /\ max_page = DefaultMaxPage
    /\ file = IdleFile
    /\ saved = <<>>
    /\ prev = <<>>
    /\ op = IdleOp
    /\ result = [raised |-> "", msg |-> "", value |-> 0]
    /\ pc = "library"
    /\ line = ""
    /\ printed = 0
    /\ saves = 0

\* what an operation on the book records: the data before it, the operation
\* and the ValueError raised, if any
LibOp(o, raised, msg, value) ==
    /\ prev' = book
    /\ op' = o
    /\ result' = [raised |-> IF raised THEN "ValueError" ELSE "", msg |-> msg,
                  value |-> value]
    /\ UNCHANGED <<now, max_page, file, saved>>
    /\ LibFrame

\* book.data[key].birthday = BirthDayField(b), as the handlers adding and
\* birthday do it: nothing is assigned when the constructor raises
SetBirthday(i, b, value) ==
    /\ i \in 1..Len(book)
    /\ \E f \in {NewBirthDayField(b, now)} :
          /\ book' = IF f.raised THEN book ELSE [book EXCEPT ![i].birthday = f.field]
          /\ LibOp([name |-> "birthday", index |-> i, arg |-> b], f.raised, f.msg, value)

\* book.data[key].days_to_birthday()
CallDaysToBirthday(i) ==
    /\ i \in 1..Len(book)
    /\ prev' = book
    /\ op' = [name |-> "days_to_birthday", index |-> i]
    /\ result' = days_to_birthday(book[i], now)
    /\ UNCHANGED <<now, book, max_page, file, saved>>
    /\ LibFrame

NextDays ==
    \/ Tick
    \/ \E b \in BirthdayInputs : SetBirthday(1, b, 0)
    \/ CallDaysToBirthday(1)

SpecDays == InitDays /\ [][NextDays]_vars

\* the days from today to each coming day of month m and day d, today included
ComingDays(today, y, m, d) ==
    {Ordinal(yy, m, d) - today : yy \in {k \in y..(y + 8) : /\ ValidDate(k, m, d)
                                                            /\ Ordinal(k, m, d) >= today}}

\* the number of calendar days from the day of clock to the next day, that day
\* included, whose month and day are m and d
CalendarDaysToNext(clock, m, d) ==
    CHOOSE k \in ComingDays(Ordinal(clock.y, clock.m, clock.d), clock.y, m, d) :
        \A j \in ComingDays(Ordinal(clock.y, clock.m, clock.d), clock.y, m, d) : k <= j

\* C4: days_to_birthday returns the whole number of calendar days from now to
\* the next occurrence of the birthday's month and day, which is 0 whenever
\* today's month and day are the birthday's, at any time of day.
DaysToBirthdayIsCalendarDays ==
    (op.name = "days_to_birthday" /\ book[op.index].birthday.made) =>
        /\ result.raised = ""
        /\ result.value = CalendarDaysToNext(now, book[op.index].birthday.date.m,
                                             book[op.index].birthday.date.d)
        /\ (now.m = book[op.index].birthday.date.m /\ now.d = book[op.index].birthday.date.d)
              => result.value = 0

-----------------------------------------------------------------------------
(* SpecPages: a book of any page size, filled by add_record and read by     *)
(* iteration and by page number                                            *)

InitPages ==
    /\ now = FirstStart
    /\ nfield = NoName
    /\ pfield = NoPhone
    /\ bfield = NoBirthday
    /\ book = <<>>
    /\ max_page \in 1..MaxPageSize
    /\ file = IdleFile
    /\ saved = <<>>
    /\ prev = <<>>
    /\ op = IdleOp
    /\ result = [raised |-> "", msg |-> "", value |-> <<>>]
    /\ pc = "library"
    /\ line = ""
    /\ printed = 0
    /\ saves = 0

\* book.add_record(Record(name))
AddRecord(name) ==
    \E r \in {NewRecord(name)} :
        /\ book' = IF r.raised THEN book ELSE add_record(book, r.value)
        /\ LibOp([name |-> "add_record", arg |-> name], r.raised, r.msg, <<>>)

\* list(book): the pages of one iteration
Iterate ==
    /\ prev' = book
    /\ op' = [name |-> "iter"]
    /\ result' = [raised |-> "", msg |-> "", value |-> Pages(book, max_page)]
    /\ UNCHANGED <<now, book, max_page, file, saved>>
    /\ LibFrame

\* book[page_number]
Index(page_number) ==
    /\ prev' = book
    /\ op' = [name |-> "getitem", arg |-> page_number]
    /\ result' = GetItem(book, max_page, page_number)
    /\ UNCHANGED <<now, book, max_page, file, saved>>
    /\ LibFrame

NextPages ==
    \/ \E n \in PageNames : AddRecord(n)
    \/ Iterate
    \/ \E k \in (0 - 1)..(Cardinality(PageNames) + 1) : Index(k)

SpecPages == InitPages /\ [][NextPages]_vars

\* ceil(n / p)
CeilDiv(n, p) == (n + p - 1) \div p

RECURSIVE Concat(_)
Concat(pages) == IF Len(pages) = 0 THEN <<>> ELSE Head(pages) \o Concat(Tail(pages))

\* the shape the pages of N records have at page size P
PagesShaped(pages, N, P, count) ==
    /\ Len(pages) = count
    /\ \A i \in 1..(count - 1) : Len(pages[i]) = P
    /\ count > 0 => Len(pages[count]) = (IF N % P # 0 THEN N % P ELSE P)

\* what book[k] gives at page size P when there are count pages
PageIndexed(k, N, P, count) ==
    IF k \in 1..count
    THEN /\ result.raised = ""
         /\ result.value = SubSeq(book, (k - 1) * P + 1, IF k * P < N THEN k * P ELSE N)
    ELSE /\ result.raised = "KeyError"
         /\ Contains("index out of range in book", result.msg)

\* C3: for N records and page size P >= 1 iteration yields ceil(N/P) pages
\* whose concatenation is the records in key order, every page but the last
\* of P records and the last of N mod P if that is nonzero, else P; book[k]
\* is the k-th page for 1 <= k <= ceil(N/P) and raises KeyError for any other k.
PaginationShape ==
    /\ op.name = "iter" =>
          /\ Concat(result.value) = book
          /\ PagesShaped(result.value, Len(book), max_page, CeilDiv(Len(book), max_page))
    /\ op.name = "getitem" =>
          PageIndexed(op.arg, Len(book), max_page, CeilDiv(Len(book), max_page))

\* book[k] returned the last page of several, and that page is a partial one
LastPartialPageIndexed ==
    /\ op.name = "getitem"
    /\ result.raised = ""
    /\ op.arg >= 2
    /\ op.arg = CeilDiv(Len(book), max_page)
    /\ Len(book) % max_page # 0
    /\ Len(result.value) = Len(book) % max_page

-----------------------------------------------------------------------------
(* SpecStore: a book is built through the Record and AddressBook methods,   *)
(* then book.json is written (by save_to_file, or by someone else), then a *)
(* book loads it                                                           *)

Json(n, phones) == [name |-> n, phones |-> phones]

JsonB(n, b, phones) == [name |-> n, birthday |-> b, phones |-> phones]

\* files save_to_file did not write: the array of book.json, or text that is not JSON
ExternalFiles ==
    {[exists |-> TRUE, good |-> FALSE, items |-> <<>>],
     [exists |-> TRUE, good |-> TRUE,
      items |-> <<JsonB("Ann", "2000-01-01", <<"0501234567", "+380501234567">>),
                  Json("Cid", <<"0501234567">>),
                  JsonB("Bob", "2999-01-01", <<"0501234567">>)>>],
     [exists |-> TRUE, good |-> TRUE,
      items |-> <<Json("Ann", <<"0501234567">>),
                  [phones |-> <<"123">>],
                  Json("Ann", <<"+380501234567">>),
                  Json("Bob", <<"0501234567", "123">>),
                  Json("Dan", <<"0501234567">>)>>],
     [exists |-> TRUE, good |-> TRUE,
      items |-> <<Json(" ", <<"0501234567">>), Json("Ann", <<"0501234567">>)>>],
     [exists |-> TRUE, good |-> TRUE,
      items |-> <<[name |-> "Ann"], [name |-> "Bob", birthday |-> "2000-01-01"]>>]}

\* the books a load may be called on, besides the one that was built
TargetBooks ==
    {<<>>,
     <<[name |-> "Zed", phones |-> <<"0501234567">>, birthday |-> NoBirthday]>>}

InitStore ==
    /\ now = FirstStart
    /\ nfield = NoName
    /\ pfield = NoPhone
    /\ bfield = NoBirthday
    /\ book = <<>>
    /\ max_page = DefaultMaxPage
    /\ file = IdleFile
    /\ saved = [valid |-> FALSE, data |-> <<>>]
    /\ prev = <<>>
    /\ op = IdleOp
    /\ result = [raised |-> "", msg |-> "", value |-> <<>>]
    /\ pc = "build"
    /\ line = ""
    /\ printed = 0
    /\ saves = 0

\* book.data[key].add_phone(PhoneField(p))
AddPhone(i, p) ==
    /\ i \in 1..Len(book)
    /\ Len(book[i].phones) < MaxPhones
    /\ \E f \in {NewPhoneField(p)} :
          /\ book' = IF f.raised THEN book
                     ELSE [book EXCEPT ![i] = add_phone(@, f.field.value)]
          /\ LibOp([name |-> "add_phone", index |-> i, arg |-> p], f.raised, f.msg, <<>>)

\* book.data[key].edit_phone(PhoneField(p))
EditPhone(i, p) ==
    /\ i \in 1..Len(book)
    /\ \E f \in {NewPhoneField(p)} :
          /\ book' = IF f.raised THEN book
                     ELSE [book EXCEPT ![i] = edit_phone(@, f.field.value)]
          /\ LibOp([name |-> "edit_phone", index |-> i, arg |-> p], f.raised, f.msg, <<>>)

\* book.data[key].delete_phone(number)
DeletePhone(i, number) ==
    /\ i \in 1..Len(book)
    /\ book' = [book EXCEPT ![i] = delete_phone(@, number)]
    /\ LibOp([name |-> "delete_phone", index |-> i, arg |-> number], FALSE, "", <<>>)

\* what writing and reading book.json records
StoreOp(name, target, value, next) ==
    /\ prev' = target
    /\ op' = [name |-> name]
    /\ result' = [raised |-> "", msg |-> "", value |-> value]
    /\ pc' = next
    /\ UNCHANGED <<now, nfield, pfield, bfield, max_page, line, printed, saves>>

\* book.save_to_file('book.json')
Save ==
    /\ pc = "build"
    /\ file' = save_to_file(book)
    /\ saved' = [valid |-> TRUE, data |-> book]
    /\ StoreOp("save", book, <<>>, "written")
    /\ UNCHANGED book

\* book.json is written by something other than save_to_file
ExternalWrite(f) ==
    /\ pc = "build"
    /\ file' = f
    /\ saved' = [valid |-> FALSE, data |-> <<>>]
    /\ StoreOp("external", book, <<>>, "written")
    /\ UNCHANGED book

\* target.load_from_file('book.json'), target being the book built or another
Load(target) ==
    /\ pc = "written"
    /\ file.exists
    /\ \E r \in {load_from_file(target, file, now)} :
          /\ book' = r.data
          /\ StoreOp("load", target, [none |-> r.none, str |-> r.str], "loaded")
    /\ UNCHANGED <<file, saved>>

NextStore ==
    \/ pc = "written" /\ saved.valid /\ Tick
    \/ pc = "build" /\ \E n \in StoreNames : AddRecord(n)
    \/ pc = "build" /\ \E i \in 1..2, p \in StorePhones : AddPhone(i, p)
    \/ pc = "build" /\ \E i \in 1..2, p \in StorePhones : EditPhone(i, p)
    \/ pc = "build" /\ \E i \in 1..2, p \in DeleteNumbers : DeletePhone(i, p)
    \/ pc = "build" /\ \E i \in 1..2, b \in StoreBirthdays : SetBirthday(i, b, <<>>)
    \/ Save
    \/ \E f \in ExternalFiles : ExternalWrite(f)
    \/ \E t \in {book} \cup TargetBooks : Load(t)

SpecStore == InitStore /\ [][NextStore]_vars

\* what a claim compares of a record: its name, its ordered phone list and
\* its birthday value, or the absence of one
RecordTuple(r) ==
    [name |-> r.name, phones |-> r.phones, hasBirthday |-> r.birthday.made,
     birthday |-> r.birthday.value]

BookTuples(data) == {RecordTuple(data[i]) : i \in 1..Len(data)}

\* the same of a JSON object that has a name
JsonTuple(j) ==
    [name |-> j.name,
     phones |-> IF "phones" \in DOMAIN j THEN j.phones ELSE <<>>,
     hasBirthday |-> "birthday" \in DOMAIN j,
     birthday |-> IF "birthday" \in DOMAIN j THEN j.birthday ELSE ""]

\* a JSON object with a name whose name, birthday and phones all pass validation
JsonValid(j, clock) ==
    /\ ValidateName(j.name) = ""
    /\ "birthday" \in DOMAIN j => ~BirthdaySetValue(NoBirthday, j.birthday, clock).raised
    /\ "phones" \in DOMAIN j => \A k \in 1..Len(j.phones) : ValidatePhone(j.phones[k]) = ""

\* the 1-based positions of the file's objects that fail validation
BadPositions(items, clock) ==
    {k \in 1..Len(items) : "name" \in DOMAIN items[k] /\ ~JsonValid(items[k], clock)}

\* the least of a set of positions
Least(positions) == CHOOSE k \in positions : \A j \in positions : k <= j

FirstBad(items, clock) == Least(BadPositions(items, clock))

\* the last load returned the validation error
LoadFailedValidation ==
    /\ op.name = "load"
    /\ file.good
    /\ ~result.value.none

NamedBefore(items, k) == {j \in 1..(k - 1) : "name" \in DOMAIN items[j]}

\* of those positions, the last one of each name
LastOfName(items, named) ==
    {j \in named : \A h \in named : items[h].name = items[j].name => h <= j}

\* the book holds exactly the records of the objects at these positions
HoldsRecordsOf(data, items, positions) ==
    /\ BookTuples(data) = {JsonTuple(items[j]) : j \in positions}
    /\ Len(data) = Cardinality(positions)

IsPrefix(p, str) == Len(p) <= Len(str) /\ SubSeq(str, 1, Len(p)) = p

\* the message names the record index i
NamesIndex(str, i) == IsPrefix("Validation error in " \o IntToStr(i) \o " record: ", str)

\* C2: when load_from_file aborts on the record at 0-based position i of the
\* file, the message names i or i + 1.
LoadErrorNamesFailingIndex ==
    LoadFailedValidation =>
        \/ NamesIndex(result.value.str, FirstBad(file.items, now) - 1)
        \/ NamesIndex(result.value.str, FirstBad(file.items, now))

\* C5: save_to_file followed by load_from_file of the same file, into any
\* book, reports no error and yields a book with the same names and, for each
\* name, the same ordered phone list and the same birthday value or absence.
SaveLoadRoundTrip ==
    (op.name = "load" /\ saved.valid) =>
        /\ result.value.none
        /\ BookTuples(book) = BookTuples(saved.data)
        /\ Len(book) = Len(saved.data)

\* a book of two records, one with two different phones and a birthday, was
\* saved, then loaded some time later into a book that held another record
RoundTripOfFullBook ==
    /\ op.name = "load"
    /\ saved.valid
    /\ now # FirstStart
    /\ Len(saved.data) = 2
    /\ \E i \in 1..2 :
          /\ Len(saved.data[i].phones) = 2
          /\ saved.data[i].phones[1] # saved.data[i].phones[2]
          /\ saved.data[i].birthday.made
    /\ \E i \in 1..2 : ~saved.data[i].birthday.made
    /\ Len(prev) = 1
    /\ prev[1].name = "Zed"
    /\ Len(book) = 2

-----------------------------------------------------------------------------
(* Spec: main_example, from the load of book.json to the save at the exit   *)

\* what book.json may hold when the program starts
StartFiles ==
    {IdleFile,
     [exists |-> TRUE, good |-> TRUE, items |-> <<>>],
     [exists |-> TRUE, good |-> TRUE,
      items |-> <<JsonB("Ann", "2000-01-01", <<"0501234567", "+380501234567">>),
                  Json("ann", <<"0501234567">>),
                  Json("Bob", <<"+380501234567">>)>>],
     [exists |-> TRUE, good |-> TRUE,
      items |-> <<Json("Ann", <<"0501234567">>),
                  JsonB("Bob", "2999-01-01", <<"0501234567">>)>>],
     [exists |-> TRUE, good |-> FALSE, items |-> <<>>]}

Init ==
    /\ now = FirstStart
    /\ nfield = NoName
    /\ pfield = NoPhone
    /\ bfield = NoBirthday
    /\ book = <<>>
    /\ max_page = DefaultMaxPage
    /\ file \in StartFiles
    /\ saved = [valid |-> FALSE, data |-> <<>>]
    /\ prev = <<>>
    /\ op = [name |-> "none", command |-> "", data |-> <<>>]
    /\ result = [raised |-> "", msg |-> "", value |-> ""]
    /\ pc = "start"
    /\ line = ""
    /\ printed = 0
    /\ saves = 0

\* what a step of main_example records
MainOp(name, cmd, raised, msg, value, prints, next) ==
    /\ prev' = book
    /\ op' = [name |-> name, command |-> cmd.command, data |-> cmd.data]
    /\ result' = [raised |-> raised, msg |-> msg, value |-> value]
    /\ printed' = prints
    /\ pc' = next
    /\ UNCHANGED <<now, nfield, pfield, bfield, max_page>>

\* book.load_from_file(filename) and the if that follows it: a result that
\* is neither None nor "" is printed and main_example returns
Loaded(r) ==
    /\ book' = r.data
    /\ IF r.none \/ r.str = ""
       THEN MainOp("load", [command |-> "", data |-> <<>>], "", "", r.str, 0, "loop")
       ELSE MainOp("load", [command |-> "", data |-> <<>>], "", "", r.str, 1, "returned")

\* main_example up to the while loop: open() raises when there is no file
Startup ==
    /\ pc = "start"
    /\ IF ~file.exists
       THEN /\ book' = book
            /\ MainOp("load", [command |-> "", data |-> <<>>], "FileNotFoundError",
                      "[Errno 2] No such file or directory: 'book.json'", "", 0, "aborted")
       ELSE \E r \in {load_from_file(book, file, now)} : Loaded(r)
    /\ UNCHANGED <<file, saved, line, saves>>

\* one pass of the while loop on a line that is an exit command: Good Bye is
\* printed, the loop is left and the book is saved
ExitLine(l) ==
    /\ pc = "loop"
    /\ \E cmd \in {ParseLine(l)} :
          /\ cmd.command \in exit_commands
          /\ MainOp("exit", cmd, "", "", "Good Bye!", 1, "done")
    /\ line' = l
    /\ file' = save_to_file(book)
    /\ saved' = [valid |-> TRUE, data |-> book]
    /\ saves' = saves + 1
    /\ UNCHANGED book

\* the result of a handler is printed, unless an exception escaped it, which
\* ends main_example
Printed(cmd, r) ==
    /\ book' = r.data
    /\ IF r.raised = ""
       THEN MainOp("command", cmd, "", "", r.out, 1, "loop")
       ELSE MainOp("command", cmd, r.raised, r.msg, "", 0, "crashed")

\* one pass of the while loop on any other line
CommandLine(l) ==
    /\ pc = "loop"
    /\ \E cmd \in {ParseLine(l)} :
          /\ cmd.command \notin exit_commands
          /\ \E r \in {Dispatch(cmd.command, cmd.data, book, max_page, now)} : Printed(cmd, r)
    /\ line' = l
    /\ UNCHANGED <<file, saved, saves>>

\* time passes while input() waits
Wait ==
    /\ pc = "loop"
    /\ Tick

Next ==
    \/ Startup
    \/ \E l \in Lines : ExitLine(l)
    \/ \E l \in Lines : CommandLine(l)
    \/ Wait

Spec == Init /\ [][Next]_vars

\* C6: each of the lines "good bye", "exit" and "close" ends the loop and is
\* followed by exactly one save; no save happens before such a line is read.
ExitLinesEndLoopAndSave ==
    /\ (op.name \in {"command", "exit"} /\ line \in exit_commands) =>
          (pc = "done" /\ saves = 1)
    /\ saves > 0 => (line \in exit_commands /\ saves = 1)

\* C7: "hi" entered with 0 or 1 argument prints what "hello" prints for the
\* same arguments, and leaves the book unchanged.
HiGreetsLikeHello ==
    (op.name = "command" /\ op.command = "hi" /\ Len(op.data) <= 1) =>
        /\ result.raised = ""
        /\ result.value = Dispatch("hello", op.data, prev, max_page, now).out
        /\ book = prev

\* the places of the records whose name equals n case-insensitively
NamedLike(data, n) == {i \in 1..Len(data) : Lower(data[i].name) = Lower(n)}

\* what "change n, p" leaves, given the places of the records named like n
ChangeOutcome(p, matches) ==
    /\ result.value = "Number is changed" =>
          /\ Len(book) = Len(prev)
          /\ \A i \in 1..Len(prev) :
                book[i] = IF i \in matches THEN [prev[i] EXCEPT !.phones = <<p>>]
                          ELSE prev[i]
    /\ (ValidatePhone(p) # "" \/ matches = {}) =>
          /\ book = prev
          /\ result.value # "Number is changed"
    /\ (ValidatePhone(p) = "" /\ matches # {}) => result.value = "Number is changed"

\* C8: after a successful "change name, phone" every record whose name equals
\* the name case-insensitively has the new phone as its only phone and every
\* other record is unchanged; when the phone is invalid or no record matches,
\* no record is changed.
ChangeReplacesAllPhones ==
    (op.name = "command" /\ op.command = "change" /\ Len(op.data) = 2) =>
        ChangeOutcome(op.data[2], NamedLike(prev, op.data[1]))

\* a change replaced the phones of two records at once, one of which had two
\* phones, and left a third record alone
ChangeOfTwoRecords ==
    /\ op.name = "command"
    /\ op.command = "change"
    /\ result.value = "Number is changed"
    /\ Cardinality(NamedLike(prev, op.data[1])) = 2
    /\ \E i \in NamedLike(prev, op.data[1]) :
          /\ Len(prev[i].phones) = 2
          /\ book[i].phones = <<op.data[2]>>
    /\ \E i \in 1..Len(prev) : i \notin NamedLike(prev, op.data[1]) /\ book[i] = prev[i]

\* C10: once the loop is running, every line that is not an exit command
\* prints exactly one result and the loop reads on; the loop ends only on an
\* exit command, and then the book is saved.
EveryLinePrintsAndLoopGoesOn ==
    /\ op.name = "command" => (printed = 1 /\ pc = "loop" /\ result.raised = "")
    /\ pc \notin {"start", "aborted", "returned", "loop"} => (pc = "done" /\ saves = 1)

====
